---- MODULE Spec2Model ----
(***************************************************************************)
(* Model of the Fanatical RSS generator's bundle pipeline, pkg/feed.go:    *)
(* Run starts one updateCategory task per category; each task queries the  *)
(* three upstream sources, converts what they return to FanaticalBundle    *)
(* records, removes duplicates, filters by category, falls back to a test  *)
(* bundle and writes docs/<category>.rss.                                  *)
(*                                                                         *)
(* Conventions of the model:                                               *)
(*  - a time.Time is an integer number of ticks since the unix epoch, with *)
(*    TicksPerSec ticks to the second, so that Time.Unix() (a truncation   *)
(*    to whole seconds) is not the identity;                               *)
(*  - a float64 amount of money is an integer number of cents;             *)
(*  - a Go string is a TLA+ string; the non-ASCII runes of the source's    *)
(*    literals (emoji, the bullet separator) are written "*" and "|",      *)
(*    which no lexicon term of the filter contains;                        *)
(*  - a Go map is a function whose DOMAIN is the set of keys present.      *)
(***************************************************************************)
EXTENDS Integers, Sequences, FiniteSets, TLC

\* ------------------------------------------------------------------ bounds

\* Resolution of the model's clock: ticks per second.
TicksPerSec == 2
\* How many ticks after Now0 a run may start at the latest.
MaxTicks == 0

\* ------------------------------------------------------------ strings (Go)

\* unicode.ToLower on the ASCII letters.
LowerChar(c) ==
  CASE c = "A" -> "a" [] c = "B" -> "b" [] c = "C" -> "c" [] c = "D" -> "d"
    [] c = "E" -> "e" [] c = "F" -> "f" [] c = "G" -> "g" [] c = "H" -> "h"
    [] c = "I" -> "i" [] c = "J" -> "j" [] c = "K" -> "k" [] c = "L" -> "l"
    [] c = "M" -> "m" [] c = "N" -> "n" [] c = "O" -> "o" [] c = "P" -> "p"
    [] c = "Q" -> "q" [] c = "R" -> "r" [] c = "S" -> "s" [] c = "T" -> "t"
    [] c = "U" -> "u" [] c = "V" -> "v" [] c = "W" -> "w" [] c = "X" -> "x"
    [] c = "Y" -> "y" [] c = "Z" -> "z" [] OTHER -> c

RECURSIVE ToLower(_)
\* strings.ToLower
ToLower(s) ==
  IF s = "" THEN "" ELSE LowerChar(SubSeq(s, 1, 1)) \o ToLower(SubSeq(s, 2, Len(s)))

\* strings.Contains
Contains(s, sub) ==
  \E i \in 1..(Len(s) - Len(sub) + 1) : SubSeq(s, i, i + Len(sub) - 1) = sub

RECURSIVE Join(_, _)
\* strings.Join
Join(parts, sep) ==
  IF Len(parts) = 0 THEN ""
  ELSE IF Len(parts) = 1 THEN parts[1]
  ELSE parts[1] \o sep \o Join(Tail(parts), sep)

\* strings.Title on a lower-case category name: the first letter upper-cased.
Title(s) ==
  CASE s = "books" -> "Books" [] s = "games" -> "Games"
    [] s = "software" -> "Software" [] s = "fallback" -> "Fallback" [] OTHER -> s

\* The separator of the description parts (a bullet in the source).
Sep == " | "

\* --------------------------------------------------------------- time (Go)

\* Time.Unix(): whole seconds since the epoch, rounded towards minus infinity.
Unix(t) == t \div TicksPerSec

\* time.Unix(sec, 0)
TimeOfUnix(sec) == sec * TicksPerSec

\* Unix seconds of the zero time.Time, which time.Parse returns with an error:
\* -62135596800 in Go, here divided by 100 to fit TLC's 32-bit
\* integers (what matters is that it is negative and before every timestamp).
ZeroTimeUnix == -621355968

\* time.Parse(time.RFC3339, s): a source timestamp is [ok, t]; a string that
\* does not parse yields the zero Time and an error.
ParseTime(raw) ==
  IF raw.ok THEN [t |-> raw.t, err |-> FALSE]
  ELSE [t |-> TimeOfUnix(ZeroTimeUnix), err |-> TRUE]

\* 30 * 24 * time.Hour, in seconds.
ThirtyDaysSec == 2592000

\* func isExpired(validUntil int64) bool
isExpired(validUntil, now) == Unix(now) > validUntil

\* -------------------------------------------------------------- prices (Go)

FallbackCurrencies == <<"EUR", "GBP", "CAD", "AUD">>

\* The amount a map holds under a key it has and it is > 0.
HasPositive(priceMap, cur) == cur \in DOMAIN priceMap /\ priceMap[cur] > 0

\* getPrice without the price > 0 conditions: a currency the map has is taken
\* whatever its amount is.
getPriceAnyAmount(priceMap, preferredCurrency) ==
  IF preferredCurrency \in DOMAIN priceMap THEN priceMap[preferredCurrency]
  ELSE IF \E i \in 1..Len(FallbackCurrencies) : FallbackCurrencies[i] \in DOMAIN priceMap
       THEN LET i == CHOOSE k \in 1..Len(FallbackCurrencies) :
                       /\ FallbackCurrencies[k] \in DOMAIN priceMap
                       /\ \A j \in 1..(k - 1) : FallbackCurrencies[j] \notin DOMAIN priceMap
            IN  priceMap[FallbackCurrencies[i]]
       ELSE 0

\* func getPrice(priceMap map[string]float64, preferredCurrency string) float64
getPrice(priceMap, preferredCurrency) ==
  IF HasPositive(priceMap, preferredCurrency) THEN priceMap[preferredCurrency]
  ELSE IF \E i \in 1..Len(FallbackCurrencies) : HasPositive(priceMap, FallbackCurrencies[i])
       THEN LET i == CHOOSE k \in 1..Len(FallbackCurrencies) :
                       /\ HasPositive(priceMap, FallbackCurrencies[k])
                       /\ \A j \in 1..(k - 1) : ~HasPositive(priceMap, FallbackCurrencies[j])
            IN  priceMap[FallbackCurrencies[i]]
       ELSE 0

\* The empty map.
NoPrices == [c \in {} |-> 0]

\* A map with one key.
OnePrice(cur, amount) == [c \in {cur} |-> amount]

\* ------------------------------------------------------- source records (Go)

\* The zero value of type FanaticalAPIBundle (the fields the pipeline reads).
APIBundleZero ==
  [ProductID |-> "", Name |-> "", Slug |-> "", Type |-> "", DisplayType |-> "",
   DiscountPercent |-> 0, OnSale |-> FALSE, BestEver |-> FALSE, FlashSale |-> FALSE,
   StarDeal |-> FALSE, Price |-> NoPrices, FullPrice |-> NoPrices, DRM |-> <<>>,
   ValidFrom |-> 0, ValidUntil |-> 0, Giveaway |-> FALSE, GameTotal |-> 0,
   DLCTotal |-> 0, PNMSaving |-> 0, OperatingSystems |-> <<>>, SDescDe |-> ""]

\* The price fields of type Price.
MkPrice(cur, amount, original, discount) ==
  [Currency |-> cur, Amount |-> amount, Original |-> original, Discount |-> discount]

\* Map a sequence through an operator.
MapSeq(Op(_), s) == [i \in 1..Len(s) |-> Op(s[i])]

RECURSIVE Flatten(_)
\* The concatenation of a sequence of sequences.
Flatten(ss) == IF Len(ss) = 0 THEN <<>> ELSE Head(ss) \o Flatten(Tail(ss))

\* The set of the elements of a sequence.
Range(s) == {s[i] : i \in 1..Len(s)}

\* ------------------------------------------------------------ classification

\* determineBundleCategory with the category taken from the type as it is,
\* without the mapping to books, games and software.
determineBundleCategoryRawType(apiBundle) == ToLower(apiBundle.Type)

\* determineBundleCategory with the type looked at before the display_type.
determineBundleCategoryTypeFirst(apiBundle) ==
  LET name == ToLower(apiBundle.Name)
      bundleType == ToLower(apiBundle.Type)
      displayType == ToLower(apiBundle.DisplayType)
  IN  CASE bundleType = "book-bundle" -> "books"
        [] bundleType = "elearning-bundle" -> "software"
        [] bundleType = "software-bundle" -> "software"
        [] OTHER ->
           CASE displayType = "book-bundle" -> "books"
             [] displayType = "elearning-bundle" -> "software"
             [] displayType = "software-bundle" -> "software"
             [] OTHER ->
                  IF Contains(name, "software") \/ Contains(name, "excel") THEN "software"
                  ELSE IF \/ Contains(name, "book")
                          \/ Contains(name, "certification")
                          \/ Contains(name, "learning") THEN "books"
                  ELSE "games"

\* determineBundleCategory with "fallback" for a name without any term.
determineBundleCategoryNoDefault(apiBundle) ==
  LET name == ToLower(apiBundle.Name)
      bundleType == ToLower(apiBundle.Type)
      displayType == ToLower(apiBundle.DisplayType)
  IN  CASE displayType = "book-bundle" \/ bundleType = "book-bundle" -> "books"
        [] displayType = "elearning-bundle" \/ bundleType = "elearning-bundle" -> "software"
        [] displayType = "software-bundle" \/ bundleType = "software-bundle" -> "software"
        [] OTHER ->
             IF \/ Contains(name, "book")
                \/ Contains(name, "certification")
                \/ Contains(name, "learning")
                \/ Contains(name, "training")
                \/ Contains(name, "course") THEN "books"
             ELSE IF \/ Contains(name, "software")
                     \/ Contains(name, "excel")
                     \/ Contains(name, "programming")
                     \/ Contains(name, "development") THEN "software"
             ELSE "fallback"

\* func determineBundleCategory(apiBundle FanaticalAPIBundle) string
determineBundleCategory(apiBundle) ==
  LET name == ToLower(apiBundle.Name)
      bundleType == ToLower(apiBundle.Type)
      displayType == ToLower(apiBundle.DisplayType)
  IN  CASE displayType = "book-bundle" -> "books"
        [] displayType = "elearning-bundle" -> "software"
        [] displayType = "software-bundle" -> "software"
        [] OTHER ->
           CASE bundleType = "book-bundle" -> "books"
             [] bundleType = "elearning-bundle" -> "software"
             [] bundleType = "software-bundle" -> "software"
             [] bundleType = "bundle" ->
                  IF Contains(name, "software") \/ Contains(name, "excel") THEN "software"
                  ELSE IF \/ Contains(name, "book")
                          \/ Contains(name, "certification")
                          \/ Contains(name, "learning") THEN "books"
                  ELSE "games"
             [] OTHER ->
                  IF \/ Contains(name, "book")
                     \/ Contains(name, "certification")
                     \/ Contains(name, "learning")
                     \/ Contains(name, "training")
                     \/ Contains(name, "course") THEN "books"
                  ELSE IF \/ Contains(name, "software")
                          \/ Contains(name, "excel")
                          \/ Contains(name, "programming")
                          \/ Contains(name, "development") THEN "software"
                  ELSE "games"

\* func determineProductCategory(product PromotionProduct) string
determineProductCategory(product) ==
  LET productType == ToLower(product.Type)
      name == ToLower(product.Name)
  IN  IF productType = "book" \/ Contains(name, "book") THEN "books"
      ELSE IF productType = "software" \/ Contains(name, "software") THEN "software"
      ELSE "games"

\* --------------------------------------------------------------- descriptions

\* func createEnhancedBundleDescription(apiBundle FanaticalAPIBundle) string
createEnhancedBundleDescription(apiBundle) ==
  LET typePart ==
        CASE apiBundle.Type = "pick-and-mix" -> <<"* Build your own bundle">>
          [] apiBundle.Type = "bundle" -> <<"* Bundle">>
          [] apiBundle.Type = "game" ->
               IF apiBundle.StarDeal THEN <<"* Star Deal">> ELSE <<>>
          [] apiBundle.Type = "book-bundle" -> <<"* Book Bundle">>
          [] apiBundle.Type = "elearning-bundle" -> <<"* Learning Bundle">>
          [] apiBundle.Type = "software-bundle" -> <<"* Software Bundle">>
          [] OTHER -> <<>>
      items == IF apiBundle.GameTotal > 0
               THEN <<ToString(apiBundle.GameTotal) \o " items">> ELSE <<>>
      dlc == IF apiBundle.DLCTotal > 0
             THEN <<ToString(apiBundle.DLCTotal) \o " DLC">> ELSE <<>>
      best == IF apiBundle.BestEver THEN <<"* Best price ever!">> ELSE <<>>
      flash == IF apiBundle.FlashSale THEN <<"* Flash sale!">> ELSE <<>>
      star == IF apiBundle.StarDeal THEN <<"* Star Deal">> ELSE <<>>
      free == IF apiBundle.Giveaway THEN <<"* FREE">> ELSE <<>>
      drm == IF Len(apiBundle.DRM) > 0
             THEN <<"DRM: " \o Join(apiBundle.DRM, ", ")>> ELSE <<>>
      os == IF Len(apiBundle.OperatingSystems) > 0
            THEN <<"OS: " \o Join(apiBundle.OperatingSystems, ", ")>> ELSE <<>>
      german == IF apiBundle.SDescDe # ""
                THEN IF Len(apiBundle.SDescDe) > 100
                     THEN <<SubSeq(apiBundle.SDescDe, 1, 100) \o "...">>
                     ELSE <<apiBundle.SDescDe>>
                ELSE <<>>
      parts == typePart \o items \o dlc \o best \o flash \o star \o free \o drm \o os \o german
  IN  IF Len(parts) = 0 THEN "Great content with amazing savings" ELSE Join(parts, Sep)

\* fmt.Sprintf("Min spend: $%.0f", minSpendUSD): the amount in whole dollars
\* (cents rounded to the nearest dollar).
MinSpendPart(minSpend) ==
  LET usd == getPrice(minSpend, "USD")
  IN  IF usd > 0 THEN <<"Min spend: $" \o ToString((usd + 50) \div 100)>> ELSE <<>>

\* func createFreeProductDescription(freeProduct FreeProduct, product PromotionProduct) string
createFreeProductDescription(freeProduct, product) ==
  LET mystery == IF product.Mystery THEN <<"Mystery Game">> ELSE <<>>
      partner == IF freeProduct.PartnerBrand # ""
                 THEN <<"Partner: " \o freeProduct.PartnerBrand>> ELSE <<>>
  IN  Join(<<"* FREE">> \o mystery \o partner \o MinSpendPart(freeProduct.MinSpend), Sep)

\* func createVoucherDescription(voucher Voucher) string
createVoucherDescription(voucher) ==
  LET full == IF voucher.FullPriceOnly THEN <<"Full price only">> ELSE <<>>
  IN  Join(<<"* " \o ToString(voucher.Percent) \o "% OFF", "Code: " \o voucher.Code>>
           \o full \o MinSpendPart(voucher.MinSpend), Sep)

\* ------------------------------------------------------------------ adapters

\* The start value of the cheapest-tier search, 999999 (in cents).
NoTierPrice == 99999900

RECURSIVE MinTierPrice(_, _)
\* The loop over pnm.Tiers of convertPickAndMixToBundle.
MinTierPrice(tiers, minPrice) ==
  IF Len(tiers) = 0 THEN minPrice
  ELSE LET tier == Head(tiers)
       IN  IF "USD" \in DOMAIN tier.Price /\ tier.Price["USD"] < minPrice
           THEN MinTierPrice(Tail(tiers), tier.Price["USD"])
           ELSE MinTierPrice(Tail(tiers), minPrice)

\* func convertPickAndMixToBundle(pnm PickAndMixBundle) FanaticalAPIBundle
convertPickAndMixToBundle(pnm) ==
  LET validFrom == ParseTime(pnm.ValidFrom).t
      validUntil == ParseTime(pnm.ValidUntil).t
      minPrice == MinTierPrice(pnm.Tiers, NoTierPrice)
      fullPrice == minPrice * 2
  IN  [APIBundleZero EXCEPT
         !.ProductID = pnm.ID, !.Name = pnm.Name, !.Slug = pnm.Slug,
         !.Type = "pick-and-mix", !.DisplayType = pnm.Type, !.OnSale = TRUE,
         !.ValidFrom = Unix(validFrom), !.ValidUntil = Unix(validUntil),
         !.Price = OnePrice("USD", minPrice), !.FullPrice = OnePrice("USD", fullPrice),
         !.DiscountPercent = 50, !.GameTotal = Len(pnm.Products)]

\* The product page path convertAPIBundlesToInternal builds from type and slug.
BundleURL(apiBundle) ==
  CASE apiBundle.Type \in {"pick-and-mix", "book-bundle", "elearning-bundle", "software-bundle"} ->
         "/en/pick-and-mix/" \o apiBundle.Slug
    [] apiBundle.Type = "game" -> "/en/game/" \o apiBundle.Slug
    [] apiBundle.Type = "bundle" -> "/en/bundle/" \o apiBundle.Slug
    [] OTHER ->
         IF Contains(apiBundle.Slug, "build-your-own") \/ Contains(apiBundle.Slug, "bundle")
         THEN "/en/pick-and-mix/" \o apiBundle.Slug
         ELSE "/en/bundle/" \o apiBundle.Slug

\* The discount convertAPIBundlesToInternal gives a bundle: the source's
\* discount_percent, else the one computed from the prices (int() truncates),
\* and pnm_saving when that is higher.
BundleDiscount(apiBundle, price, originalPrice) ==
  LET given == apiBundle.DiscountPercent
      discount == IF given = 0 /\ originalPrice > price /\ originalPrice > 0
                  THEN ((originalPrice - price) * 100) \div originalPrice
                  ELSE given
  IN  IF apiBundle.PNMSaving > discount THEN apiBundle.PNMSaving ELSE discount

\* The FanaticalBundle convertAPIBundlesToInternal builds from one API bundle.
InternalBundle(apiBundle, now) ==
  LET price == getPrice(apiBundle.Price, "USD")
      originalPrice == getPrice(apiBundle.FullPrice, "USD")
  IN  [ID |-> apiBundle.ProductID,
       Title |-> apiBundle.Name,
       Description |-> createEnhancedBundleDescription(apiBundle),
       URL |-> BundleURL(apiBundle),
       Slug |-> apiBundle.Slug,
       Type |-> "",
       Category |-> determineBundleCategory(apiBundle),
       StartDate |-> TimeOfUnix(apiBundle.ValidFrom),
       EndDate |-> TimeOfUnix(apiBundle.ValidUntil),
       IsActive |-> apiBundle.OnSale /\ ~isExpired(apiBundle.ValidUntil, now),
       Price |-> MkPrice("USD", price, originalPrice,
                         BundleDiscount(apiBundle, price, originalPrice))]

\* The API bundles convertAPIBundlesToInternal does not skip.
KeepsAPIBundle(apiBundle, now) ==
  /\ apiBundle.Name # ""
  /\ ~isExpired(apiBundle.ValidUntil, now)
  /\ ~(apiBundle.Giveaway /\ apiBundle.GameTotal < 5)
  /\ InternalBundle(apiBundle, now).IsActive

\* func convertAPIBundlesToInternal(apiBundles []FanaticalAPIBundle) []FanaticalBundle
convertAPIBundlesToInternal(apiBundles, now) ==
  LET Keep(a) == KeepsAPIBundle(a, now)
      Conv(a) == InternalBundle(a, now)
  IN  MapSeq(Conv, SelectSeq(apiBundles, Keep))

\* The bundles convertPromotionsToBundles makes of one free-products promotion.
FreeProductBundles(freeProduct, now) ==
  LET validUntil == ParseTime(freeProduct.ValidUntil)
      parsedFrom == ParseTime(freeProduct.ValidFrom)
      validFrom == IF parsedFrom.err THEN now ELSE parsedFrom.t
      Visible(product) == product.IsVisible
      Conv(product) ==
        [ID |-> product.ID,
         Title |-> product.Name,
         Description |-> createFreeProductDescription(freeProduct, product),
         URL |-> "/en/game/" \o product.Slug,
         Slug |-> product.Slug,
         Type |-> "",
         Category |-> determineProductCategory(product),
         StartDate |-> validFrom,
         EndDate |-> validUntil.t,
         IsActive |-> TRUE,
         Price |-> MkPrice("USD", 0, getPrice(product.Price, "USD"), 100)]
  IN  IF ~freeProduct.Public THEN <<>>
      ELSE IF validUntil.err \/ validUntil.t < now THEN <<>>
      ELSE MapSeq(Conv, SelectSeq(freeProduct.Products, Visible))

\* The bundles convertPromotionsToBundles makes of one voucher.
VoucherBundles(voucher, now) ==
  LET validUntil == ParseTime(voucher.ValidUntil)
      parsedFrom == ParseTime(voucher.ValidFrom)
      validFrom == IF parsedFrom.err THEN now ELSE parsedFrom.t
  IN  IF ~voucher.Public \/ ~voucher.Game THEN <<>>
      ELSE IF validUntil.err \/ validUntil.t < now THEN <<>>
      ELSE << [ID |-> voucher.ID,
               Title |-> "Voucher: " \o voucher.Title,
               Description |-> createVoucherDescription(voucher),
               URL |-> "/en/bundles",
               Slug |-> "voucher-" \o voucher.Code,
               Type |-> "",
               Category |-> "games",
               StartDate |-> validFrom,
               EndDate |-> validUntil.t,
               IsActive |-> TRUE,
               Price |-> MkPrice("USD", 0, 0, voucher.Percent)] >>

\* func convertPromotionsToBundles(promotions *PromotionsResponse, category string) []FanaticalBundle
convertPromotionsToBundles(promotions, category, now) ==
  LET Free(fp) == FreeProductBundles(fp, now)
      Vouch(v) == VoucherBundles(v, now)
  IN  Flatten(MapSeq(Free, promotions.FreeProducts))
      \o (IF category = "games" THEN Flatten(MapSeq(Vouch, promotions.Vouchers)) ELSE <<>>)

\* ------------------------------------------------------------- deduplication

\* key := fmt.Sprintf("%s-%d", bundle.Slug, bundle.StartDate.Unix())
DedupKey(bundle) == bundle.Slug \o "-" \o ToString(Unix(bundle.StartDate))

RECURSIVE DedupLoop(_, _, _)
\* The loop of removeDuplicateBundles over the bundles left, with the keys seen
\* and the unique bundles so far.
DedupLoop(bundles, seen, uniqueBundles) ==
  IF Len(bundles) = 0 THEN uniqueBundles
  ELSE LET bundle == Head(bundles)
           key == DedupKey(bundle)
       IN  IF key \notin seen
           THEN DedupLoop(Tail(bundles), seen \cup {key}, Append(uniqueBundles, bundle))
           ELSE DedupLoop(Tail(bundles), seen, uniqueBundles)

RECURSIVE DedupLoopPrepending(_, _, _)
\* The loop of removeDuplicateBundles with each unique bundle put in front of
\* the unique bundles so far.
DedupLoopPrepending(bundles, seen, uniqueBundles) ==
  IF Len(bundles) = 0 THEN uniqueBundles
  ELSE LET bundle == Head(bundles)
           key == DedupKey(bundle)
       IN  IF key \notin seen
           THEN DedupLoopPrepending(Tail(bundles), seen \cup {key}, <<bundle>> \o uniqueBundles)
           ELSE DedupLoopPrepending(Tail(bundles), seen, uniqueBundles)

\* removeDuplicateBundles that returns the unique bundles last-seen first.
removeDuplicateBundlesPrepending(bundles) == DedupLoopPrepending(bundles, {}, <<>>)

\* func removeDuplicateBundles(bundles []FanaticalBundle) []FanaticalBundle
removeDuplicateBundles(bundles) == DedupLoop(bundles, {}, <<>>)

\* ------------------------------------------------------------ category filter

\* The title terms shouldIncludeBundle takes for a books bundle.
BooksLexicon(title) ==
  \/ Contains(title, "certification")
  \/ Contains(title, "learning")
  \/ Contains(title, "elearning")
  \/ Contains(title, "training")
  \/ Contains(title, "course")
  \/ (Contains(title, "development") /\ ~Contains(title, "game"))
  \/ Contains(title, "programming")
  \/ Contains(title, "coding")
  \/ Contains(title, "security")
  \/ Contains(title, "cloud")
  \/ Contains(title, "machine learning")
  \/ (Contains(title, "python") /\ ~Contains(title, "game"))
  \/ Contains(title, "c#")
  \/ Contains(title, "graphics and design")
  \/ Contains(title, "business computing")
  \/ Contains(title, "network")
  \/ Contains(title, "robotics")
  \/ Contains(title, "digital life")

\* The gaming titles shouldIncludeBundle keeps out of books.
GamingTitle(title) ==
  \/ Contains(title, "rpg and fantasy")
  \/ Contains(title, "game")
  \/ Contains(title, "gaming")

\* The titles shouldIncludeBundle keeps out of games.
GamesExcluded(title) ==
  \/ Contains(title, "certification")
  \/ Contains(title, "learning")
  \/ Contains(title, "training")
  \/ Contains(title, "course")
  \/ Contains(title, "software")

\* The category, title and description terms shouldIncludeBundle takes for games.
GamesLexicon(bundleCategory, title, description) ==
  \/ bundleCategory = "games"
  \/ Contains(title, "game")
  \/ Contains(title, "rpg")
  \/ Contains(title, "fantasy")
  \/ Contains(title, "strategy")
  \/ Contains(title, "capcom")
  \/ Contains(title, "brutal")
  \/ Contains(title, "chillout")
  \/ Contains(title, "favorites")
  \/ Contains(title, "point and click")
  \/ Contains(title, "steam")
  \/ Contains(description, "game")
  \/ Contains(title, "voucher")

\* The title and description terms shouldIncludeBundle takes for software.
SoftwareLexicon(title, description) ==
  \/ Contains(title, "software")
  \/ Contains(title, "app")
  \/ Contains(description, "software")
  \/ Contains(description, "app")
  \/ Contains(title, "excel")
  \/ Contains(title, "zenva")

\* func shouldIncludeBundle(bundle FanaticalBundle, category string) bool
shouldIncludeBundle(bundle, category) ==
  LET bundleCategory == ToLower(bundle.Category)
      targetCategory == ToLower(category)
      title == ToLower(bundle.Title)
      description == ToLower(bundle.Description)
  IN  IF bundleCategory = targetCategory THEN TRUE
      ELSE CASE targetCategory = "books" ->
                  IF GamingTitle(title) THEN FALSE ELSE BooksLexicon(title)
             [] targetCategory = "games" ->
                  IF GamesExcluded(title) THEN FALSE
                  ELSE GamesLexicon(bundleCategory, title, description)
             [] targetCategory = "software" -> SoftwareLexicon(title, description)
             [] targetCategory = "fallback" ->
                  LET wouldBeBooks ==
                        \/ bundleCategory = "books"
                        \/ (BooksLexicon(title) /\ ~GamingTitle(title))
                      wouldBeGames ==
                        GamesLexicon(bundleCategory, title, description)
                        /\ ~GamesExcluded(title)
                      wouldBeSoftware ==
                        bundleCategory = "software" \/ SoftwareLexicon(title, description)
                  IN  ~wouldBeBooks /\ ~wouldBeGames /\ ~wouldBeSoftware
             [] OTHER -> TRUE

\* createTestBundle with one placeholder for all categories.
createTestBundleGeneric(category, now) ==
  << [ID |-> "test",
      Title |-> "Test Bundle",
      Description |-> "Test bundle - no active bundles found",
      URL |-> "/en/bundle/test",
      Slug |-> "",
      Type |-> "",
      Category |-> "games",
      StartDate |-> now,
      EndDate |-> now + TimeOfUnix(ThirtyDaysSec),
      IsActive |-> TRUE,
      Price |-> MkPrice("USD", 0, 0, 0)] >>

\* createTestBundle returning no bundle.
createTestBundleNone(category, now) == <<>>

\* func createTestBundle(category string) []FanaticalBundle
createTestBundle(category, now) ==
  << [ID |-> category \o "-test",
      Title |-> "Test " \o Title(category) \o " Bundle",
      Description |-> "Test bundle for " \o category \o " category - no active bundles found",
      URL |-> "/en/bundle/test",
      Slug |-> "",
      Type |-> "",
      Category |-> category,
      StartDate |-> now,
      EndDate |-> now + TimeOfUnix(ThirtyDaysSec),
      IsActive |-> TRUE,
      Price |-> MkPrice("USD", 999, 4999, 80)] >>

\* ------------------------------------------------------------- HTTP adapters

\* What client.Do and the JSON decoder give for one request: whether the
\* transport succeeded, the status code, whether the body decodes, and the
\* decoded body.
Response(transport, status, decodes, body) ==
  [transport |-> transport, status |-> status, decodes |-> decodes, body |-> body]

\* What the two bundle adapters return: ([]FanaticalBundle, error).
Fetched(bundles, error) == [bundles |-> bundles, err |-> error]

\* fetchBundlesFromNewAPI without the check of the status code.
fetchBundlesFromNewAPIAnyStatus(resp, now) ==
  IF ~resp.transport THEN Fetched(<<>>, "failed to fetch new API")
  ELSE IF ~resp.decodes THEN Fetched(<<>>, "failed to decode new API response")
  ELSE Fetched(convertAPIBundlesToInternal(
                 resp.body.StarDeal \o MapSeq(convertPickAndMixToBundle, resp.body.PickAndMix),
                 now), "nil")

\* func fetchBundlesFromNewAPI() ([]FanaticalBundle, error)
fetchBundlesFromNewAPI(resp, now) ==
  IF ~resp.transport THEN Fetched(<<>>, "failed to fetch new API")
  ELSE IF resp.status # 200
       THEN Fetched(<<>>, "new API returned status " \o ToString(resp.status))
  ELSE IF ~resp.decodes THEN Fetched(<<>>, "failed to decode new API response")
  ELSE Fetched(convertAPIBundlesToInternal(
                 resp.body.StarDeal \o MapSeq(convertPickAndMixToBundle, resp.body.PickAndMix),
                 now), "nil")

\* func fetchBundlesFromAlgoliaAPI() ([]FanaticalBundle, error)
fetchBundlesFromAlgoliaAPI(resp, now) ==
  IF ~resp.transport THEN Fetched(<<>>, "failed to fetch algolia API")
  ELSE IF resp.status # 200
       THEN Fetched(<<>>, "algolia API returned status " \o ToString(resp.status))
  ELSE IF ~resp.decodes THEN Fetched(<<>>, "failed to decode algolia API response")
  ELSE Fetched(convertAPIBundlesToInternal(resp.body, now), "nil")

\* The *PromotionsResponse of a failed request.
NoPromotions == [FreeProducts |-> <<>>, Vouchers |-> <<>>]

\* func fetchPromotionsFromAPI() (*PromotionsResponse, error)
fetchPromotionsFromAPI(resp) ==
  IF ~resp.transport THEN [promotions |-> NoPromotions, err |-> "failed to fetch promotions API"]
  ELSE IF resp.status # 200
       THEN [promotions |-> NoPromotions,
             err |-> "promotions API returned status " \o ToString(resp.status)]
  ELSE IF ~resp.decodes
       THEN [promotions |-> NoPromotions, err |-> "failed to decode promotions API response"]
  ELSE [promotions |-> resp.body, err |-> "nil"]

\* ------------------------------------------------- the upstream sources' data

\* The whole second in which the run starts.
NowSec == 10

\* The instant the run starts: one tick after the start of second NowSec.
Now0 == TimeOfUnix(NowSec) + 1

\* An available_valid_until far in the future.
FarSec == NowSec + 100

\* A source timestamp that parses, and one that does not.
Stamp(t) == [ok |-> TRUE, t |-> t]
BadStamp == [ok |-> FALSE, t |-> 0]

\* An API bundle on sale.
Deal(name, slug, type, validFrom, validUntil) ==
  [APIBundleZero EXCEPT !.ProductID = "id-" \o slug, !.Name = name, !.Slug = slug,
     !.Type = type, !.OnSale = TRUE, !.ValidFrom = validFrom, !.ValidUntil = validUntil,
     !.Price = OnePrice("USD", 999), !.FullPrice = OnePrice("USD", 1999)]

StarMystery ==
  [Deal("Mystery Box", "mystery-box", "game", 5, FarSec) EXCEPT !.StarDeal = TRUE]

PnmPlatinum ==
  [ID |-> "pnm-1", Name |-> "Build your own Platinum Collection",
   Slug |-> "platinum-collection", Type |-> "pick-and-mix",
   ValidFrom |-> BadStamp, ValidUntil |-> Stamp(TimeOfUnix(FarSec) + 1),
   Tiers |-> << [Quantity |-> 3, Price |-> OnePrice("USD", 999)],
                [Quantity |-> 5, Price |-> OnePrice("USD", 1499)] >>,
   Products |-> << "a", "b", "c" >>]

PnmRetro ==
  [ID |-> "pnm-2", Name |-> "Retro Arcade Mix", Slug |-> "retro-",
   Type |-> "pick-and-mix", ValidFrom |-> Stamp(TimeOfUnix(5)),
   ValidUntil |-> Stamp(TimeOfUnix(FarSec)),
   Tiers |-> << [Quantity |-> 2, Price |-> OnePrice("EUR", 499)] >>,
   Products |-> << >>]

\* The bodies /api/all/de may answer with.
NewAPIBodies ==
  { [StarDeal |-> <<StarMystery>>, PickAndMix |-> <<PnmPlatinum, PnmRetro>>] }

\* The bodies /api/algolia/bundles may answer with.
AlgoliaBodies ==
  { << Deal("Mystery Box Deluxe", "mystery-box", "bundle", 5, FarSec),
       Deal("Mystery Box Winter", "mystery-box", "bundle", 7, FarSec),
       Deal("Cyber Security Bundle", "cyber-security", "bundle", 5, FarSec),
       Deal("Summer Sale Leftovers", "leftovers", "bundle", 5, NowSec - 1),
       Deal("Last Chance Bundle", "last-chance", "bundle", 5, NowSec),
       Deal("", "nameless", "bundle", 5, FarSec),
       Deal("Retro Classics", "retro", "bundle", -5, FarSec),
       Deal("Retro Classics Deluxe", "retro", "bundle", -5, FarSec),
       Deal("Retro Classics Encore", "retro", "bundle", 7, FarSec),
       [Deal("Off Sale Bundle", "off-sale", "bundle", 5, FarSec) EXCEPT !.OnSale = FALSE] >> }

FreeMystery ==
  [PartnerBrand |-> "", Public |-> TRUE,
   ValidFrom |-> Stamp(TimeOfUnix(5) + 1), ValidUntil |-> Stamp(TimeOfUnix(FarSec)),
   MinSpend |-> OnePrice("USD", 1000),
   Products |-> << [ID |-> "fp-1", Name |-> "Mystery Box Free", Slug |-> "mystery-box",
                    Type |-> "game", Price |-> OnePrice("USD", 499),
                    Mystery |-> TRUE, IsVisible |-> TRUE],
                   [ID |-> "fp-2", Name |-> "Hidden Gem", Slug |-> "hidden-gem",
                    Type |-> "game", Price |-> NoPrices,
                    Mystery |-> FALSE, IsVisible |-> FALSE] >>]

FreeEnded ==
  [PartnerBrand |-> "Acme", Public |-> TRUE,
   ValidFrom |-> BadStamp, ValidUntil |-> Stamp(TimeOfUnix(NowSec)),
   MinSpend |-> NoPrices,
   Products |-> << [ID |-> "fp-3", Name |-> "Photo Software Suite", Slug |-> "photo-suite",
                    Type |-> "software", Price |-> OnePrice("USD", 2999),
                    Mystery |-> FALSE, IsVisible |-> TRUE] >>]

FreeEbook ==
  [PartnerBrand |-> "Acme", Public |-> TRUE,
   ValidFrom |-> BadStamp, ValidUntil |-> Stamp(TimeOfUnix(FarSec)),
   MinSpend |-> NoPrices,
   Products |-> << [ID |-> "fp-4", Name |-> "Retro Handbook", Slug |-> "retro",
                    Type |-> "book", Price |-> OnePrice("USD", 1999),
                    Mystery |-> FALSE, IsVisible |-> TRUE] >>]

VoucherSpring ==
  [ID |-> "v-1", Code |-> "SPRING10", Title |-> "Spring Sale", Percent |-> 10,
   MinSpend |-> NoPrices, ValidFrom |-> Stamp(TimeOfUnix(7)),
   ValidUntil |-> Stamp(TimeOfUnix(FarSec)), Public |-> TRUE, Game |-> TRUE,
   FullPriceOnly |-> FALSE]

VoucherEnded ==
  [VoucherSpring EXCEPT !.ID = "v-2", !.Code = "WINTER5", !.Percent = 5,
     !.ValidUntil = Stamp(TimeOfUnix(NowSec))]

\* The bodies /api/all-promotions/de may answer with.
PromotionsBodies ==
  { [FreeProducts |-> <<FreeMystery, FreeEnded, FreeEbook>>,
     Vouchers |-> <<VoucherSpring, VoucherEnded>>] }

\* The three upstream sources, in the order updateCategory queries them.
Sources == <<"new", "algolia", "promotions">>

\* The bodies a source may answer with.
Bodies(src) ==
  CASE src = "new" -> NewAPIBodies
    [] src = "algolia" -> AlgoliaBodies
    [] src = "promotions" -> PromotionsBodies

\* The decoded value of a failed request: the zero value of the body's type.
ZeroBody(src) ==
  CASE src = "new" -> [StarDeal |-> <<>>, PickAndMix |-> <<>>]
    [] src = "algolia" -> <<>>
    [] src = "promotions" -> NoPromotions

\* What a source may answer during a run: a timeout (no response), a 503, a
\* 200 whose body is not the expected JSON, or a 200 with one of its bodies.
Responses(src) ==
  { Response(FALSE, 0, FALSE, ZeroBody(src)),
    Response(TRUE, 503, TRUE, ZeroBody(src)),
    Response(TRUE, 200, FALSE, ZeroBody(src)) }
  \cup { Response(TRUE, 200, TRUE, body) : body \in Bodies(src) }

\* The categories Run starts a task for, in the order of its loop.
RunCategories == <<"books", "games", "software", "fallback">>

\* The three product categories of the feeds.
Categories == {"books", "games", "software"}

\* One updateCategory task per category of Run.
Tasks == Range(RunCategories)

\* ----------------------------------------------------------------- tabulation
\* The adapters and the filter are pure: the run looks their results up in
\* functions over the instants and the source answers of the model.

\* The instants a run may read from the clock.
Clock == Now0..(Now0 + MaxTicks)

NewAPIResults ==
  [n \in Clock, resp \in Responses("new") |-> fetchBundlesFromNewAPI(resp, n)]

AlgoliaResults ==
  [n \in Clock, resp \in Responses("algolia") |-> fetchBundlesFromAlgoliaAPI(resp, n)]

PromotionsResults ==
  [resp \in Responses("promotions") |-> fetchPromotionsFromAPI(resp)]

PromotionBundles ==
  [n \in Clock, category \in Range(RunCategories), promotions \in PromotionsBodies |->
     convertPromotionsToBundles(promotions, category, n)]

\* Every bundle an adapter can hand to updateCategory.
BundleUniverse ==
  UNION ( {Range(NewAPIResults[n, resp].bundles) : n \in Clock, resp \in Responses("new")}
          \cup {Range(AlgoliaResults[n, resp].bundles) :
                  n \in Clock, resp \in Responses("algolia")}
          \cup {Range(PromotionBundles[n, category, promotions]) :
                  n \in Clock, category \in Range(RunCategories),
                  promotions \in PromotionsBodies} )

Included ==
  [bundle \in BundleUniverse, category \in Range(RunCategories) |->
     shouldIncludeBundle(bundle, category)]

\* The loop of updateCategory that keeps the bundles shouldIncludeBundle accepts.
FilterBundles(bundles, category) ==
  LET Include(bundle) == Included[bundle, category]
  IN  SelectSeq(bundles, Include)

\* ------------------------------------------------------------------- the run

\* One file name for the feeds of all categories.
FileNameShared(category) == "docs/bundles.rss"

\* filename := fmt.Sprintf("docs/%s.rss", category)
FileName(category) == "docs/" \o category \o ".rss"

\* The feeds.Item createFeed makes of a bundle (without the rendered content).
FeedItem(bundle) ==
  [Title |-> bundle.Title,
   Link |-> "https://www.fanatical.com" \o bundle.URL,
   Created |-> bundle.StartDate,
   Description |-> bundle.Description,
   Id |-> "fanatical-" \o bundle.Slug \o "-" \o ToString(Unix(bundle.StartDate))]

RECURSIVE InsertItem(_, _)
\* One insertion of the sort of createFeed: the item goes before the first
\* item it was created after.
InsertItem(sorted, item) ==
  IF Len(sorted) = 0 THEN <<item>>
  ELSE IF item.Created > sorted[Len(sorted)].Created
       THEN Append(InsertItem(SubSeq(sorted, 1, Len(sorted) - 1), item), sorted[Len(sorted)])
       ELSE Append(sorted, item)

RECURSIVE SortItems(_, _)
\* sort.Slice(feed.Items, ... Created.After ...) on a short slice: insertion sort.
SortItems(sorted, items) ==
  IF Len(items) = 0 THEN sorted
  ELSE SortItems(InsertItem(sorted, Head(items)), Tail(items))

\* func createFeed(bundles []FanaticalBundle, category string) (feeds.Feed, error)
createFeed(bundles, category) ==
  [Title |-> "Fanatical RSS " \o Title(category) \o " Bundles",
   Items |-> SortItems(<<>>, MapSeq(FeedItem, bundles))]

\* The empty feed updateCategory writes for a fallback category without bundles.
EmptyFallbackFeed == [Title |-> "Fanatical RSS Fallback Bundles", Items |-> <<>>]

VARIABLES
  timeNow,      \* time.Now(), in ticks
  upstream,     \* what each source answers to a request during this run
  disk,         \* whether writing under docs/ succeeds during this run
  spawned,      \* how many iterations of Run's loop are done
  wg,           \* the counter of Run's sync.WaitGroup
  runReturned,  \* Run has returned
  pc,           \* where each updateCategory task is
  allBundles,   \* the allBundles of each task
  err,          \* the err of each task
  requests,     \* how many requests each source has received
  adapterOut,   \* history: what each adapter handed each task, when, from which response
  deduped,      \* history: allBundles after removeDuplicateBundles
  selected,     \* history: filteredBundles before the test-bundle fallback
  handed,       \* history: the bundle lists handed to createFeed, in order
  doneCalls,    \* history: how often each task has called wg.Done
  files,        \* the feed each file under docs/ holds, and how often it was written
  probe,        \* the argument of a pure function applied on its own, outside a run
  answer        \* what the pure functions applied to probe returned

vars == <<timeNow, upstream, disk, spawned, wg, runReturned, pc, allBundles, err, requests,
          adapterOut, deduped, selected, handed, doneCalls, files, probe, answer>>

\* No pure function is applied on its own.
NoProbe == [kind |-> "none"]

\* An adapter that has not run yet in a task.
NotRun == [ran |-> FALSE, at |-> 0, failed |-> FALSE, bundles |-> <<>>]

\* The record of an adapter's run in a task.
Ran(at, failed, bundles) == [ran |-> TRUE, at |-> at, failed |-> failed, bundles |-> bundles]

\* What the sources answer, the clock and the disk during a run.
InitWorld ==
  /\ timeNow \in Clock
  /\ \E rn \in Responses("new"), ra \in Responses("algolia"), rp \in Responses("promotions") :
       upstream = [new |-> rn, algolia |-> ra, promotions |-> rp]
  /\ disk \in {"ok", "failing"}

\* Run has not started its tasks.
InitTasks ==
  /\ spawned = 0
  /\ wg = 0
  /\ runReturned = FALSE
  /\ pc = [t \in Tasks |-> "idle"]
  /\ allBundles = [t \in Tasks |-> <<>>]
  /\ err = [t \in Tasks |-> "nil"]
  /\ requests = [src \in Range(Sources) |-> 0]
  /\ adapterOut = [t \in Tasks |-> [src \in Range(Sources) |-> NotRun]]
  /\ deduped = [t \in Tasks |-> <<>>]
  /\ selected = [t \in Tasks |-> <<>>]
  /\ handed = [t \in Tasks |-> <<>>]
  /\ doneCalls = [t \in Tasks |-> 0]
  /\ files = [f \in {FileName(t) : t \in Tasks} |-> [writes |-> 0, feed |-> EmptyFallbackFeed]]

Init ==
  /\ InitWorld
  /\ InitTasks
  /\ probe = NoProbe
  /\ answer = NoProbe

\* One iteration of the loop of Run: wg.Add(1); go updateCategory(&wg, category).
Spawn ==
  /\ spawned < Len(RunCategories)
  /\ spawned' = spawned + 1
  /\ wg' = wg + 1
  /\ pc' = [pc EXCEPT ![RunCategories[spawned + 1]] = "fetchNew"]
  /\ UNCHANGED <<probe, answer, timeNow, upstream, disk,
                 runReturned, allBundles, err, requests, adapterOut,
                 deduped, selected, handed, doneCalls, files>>

\* Run returning once its loop is done, without wg.Wait().
RunReturnWithoutWait ==
  /\ spawned = Len(RunCategories)
  /\ ~runReturned
  /\ runReturned' = TRUE
  /\ UNCHANGED <<probe, answer, timeNow, upstream, disk,
                 spawned, wg, pc, allBundles, err, requests,
                 adapterOut, deduped, selected, handed, doneCalls, files>>

\* wg.Wait() returns, and Run with it.
RunReturn ==
  /\ spawned = Len(RunCategories)
  /\ wg = 0
  /\ ~runReturned
  /\ runReturned' = TRUE
  /\ UNCHANGED <<probe, answer, timeNow, upstream, disk,
                 spawned, wg, pc, allBundles, err, requests,
                 adapterOut, deduped, selected, handed, doneCalls, files>>

\* updateCategory, lines 304-314: the request to /api/all/de.
FetchNew(t) ==
  /\ pc[t] = "fetchNew"
  /\ LET got == NewAPIResults[timeNow, upstream["new"]]
     IN  /\ err' = [err EXCEPT ![t] = got.err]
         /\ allBundles' = [allBundles EXCEPT ![t] =
              IF got.err # "nil" THEN @ ELSE @ \o got.bundles]
         /\ adapterOut' = [adapterOut EXCEPT ![t]["new"] =
              Ran(timeNow, got.err # "nil", got.bundles)]
  /\ requests' = [requests EXCEPT !["new"] = @ + 1]
  /\ pc' = [pc EXCEPT ![t] = "fetchAlgolia"]
  /\ UNCHANGED <<probe, answer, timeNow, upstream, disk,
                 spawned, wg, runReturned, deduped, selected, handed,
                 doneCalls, files>>

\* The request to /api/algolia/bundles with an error branch that empties allBundles.
FetchAlgoliaResetting(t) ==
  /\ pc[t] = "fetchAlgolia"
  /\ LET got == AlgoliaResults[timeNow, upstream["algolia"]]
     IN  /\ err' = [err EXCEPT ![t] = got.err]
         /\ allBundles' = [allBundles EXCEPT ![t] =
              IF got.err # "nil" THEN <<>> ELSE @ \o got.bundles]
         /\ adapterOut' = [adapterOut EXCEPT ![t]["algolia"] =
              Ran(timeNow, got.err # "nil", got.bundles)]
  /\ requests' = [requests EXCEPT !["algolia"] = @ + 1]
  /\ pc' = [pc EXCEPT ![t] = "fetchPromotions"]
  /\ UNCHANGED <<probe, answer, timeNow, upstream, disk,
                 spawned, wg, runReturned, deduped, selected, handed,
                 doneCalls, files>>

\* updateCategory, lines 316-326: the request to /api/algolia/bundles.
FetchAlgolia(t) ==
  /\ pc[t] = "fetchAlgolia"
  /\ LET got == AlgoliaResults[timeNow, upstream["algolia"]]
     IN  /\ err' = [err EXCEPT ![t] = got.err]
         /\ allBundles' = [allBundles EXCEPT ![t] =
              IF got.err # "nil" THEN @ ELSE @ \o got.bundles]
         /\ adapterOut' = [adapterOut EXCEPT ![t]["algolia"] =
              Ran(timeNow, got.err # "nil", got.bundles)]
  /\ requests' = [requests EXCEPT !["algolia"] = @ + 1]
  /\ pc' = [pc EXCEPT ![t] = "fetchPromotions"]
  /\ UNCHANGED <<probe, answer, timeNow, upstream, disk,
                 spawned, wg, runReturned, deduped, selected, handed,
                 doneCalls, files>>

\* updateCategory, lines 328-340: the request to /api/all-promotions/de and the
\* conversion of the promotions.
FetchPromotions(t) ==
  /\ pc[t] = "fetchPromotions"
  /\ LET got == PromotionsResults[upstream["promotions"]]
         promotionBundles ==
           IF got.err # "nil" THEN <<>>
           ELSE PromotionBundles[timeNow, t, got.promotions]
     IN  /\ err' = [err EXCEPT ![t] = got.err]
         /\ allBundles' = [allBundles EXCEPT ![t] = @ \o promotionBundles]
         /\ adapterOut' = [adapterOut EXCEPT ![t]["promotions"] =
              Ran(timeNow, got.err # "nil", promotionBundles)]
  /\ requests' = [requests EXCEPT !["promotions"] = @ + 1]
  /\ pc' = [pc EXCEPT ![t] = "process"]
  /\ UNCHANGED <<probe, answer, timeNow, upstream, disk,
                 spawned, wg, runReturned, deduped, selected, handed,
                 doneCalls, files>>

\* func writeFeedToFile(feed feeds.Feed, category string) error, on the files.
writeFeedToFile(fs, feed, category, diskState) ==
  IF diskState = "ok"
  THEN [fs EXCEPT ![FileName(category)] = [writes |-> @.writes + 1, feed |-> feed]]
  ELSE fs

\* updateCategory, lines 342-412: deduplicate, filter, fall back to the test
\* bundle, create the feed, write it, and (deferred) wg.Done().
Process(t) ==
  /\ pc[t] = "process"
  /\ LET unique == removeDuplicateBundles(allBundles[t])
         filtered == FilterBundles(unique, t)
         filteredBundles ==
           IF Len(filtered) = 0 /\ t # "fallback" THEN createTestBundle(t, timeNow)
           ELSE filtered
         feed ==
           IF Len(filteredBundles) = 0 /\ t = "fallback" THEN EmptyFallbackFeed
           ELSE createFeed(filteredBundles, t)
     IN  /\ allBundles' = [allBundles EXCEPT ![t] = unique]
         /\ deduped' = [deduped EXCEPT ![t] = unique]
         /\ selected' = [selected EXCEPT ![t] = filtered]
         /\ handed' = [handed EXCEPT ![t] =
              IF Len(filteredBundles) = 0 /\ t = "fallback" THEN @
              ELSE Append(@, filteredBundles)]
         /\ files' = writeFeedToFile(files, feed, t, disk)
         /\ err' = [err EXCEPT ![t] =
              IF Len(filteredBundles) = 0 /\ t = "fallback" THEN @ ELSE "nil"]
  /\ wg' = wg - 1
  /\ doneCalls' = [doneCalls EXCEPT ![t] = @ + 1]
  /\ pc' = [pc EXCEPT ![t] = "done"]
  /\ UNCHANGED <<probe, answer, timeNow, upstream, disk,
                 spawned, runReturned, requests, adapterOut>>

Next ==
  \/ Spawn
  \/ RunReturn
  \/ \E t \in Tasks : FetchNew(t)
  \/ \E t \in Tasks : FetchAlgolia(t)
  \/ \E t \in Tasks : FetchPromotions(t)
  \/ \E t \in Tasks : Process(t)

Spec == Init /\ [][Next]_vars

\* A step of the updateCategory task of a category.
TaskStep(t) == pc[t] \notin {"idle", "done"} /\ pc'[t] # pc[t]

\* Weak fairness of the steps of a task, written out: a step of the task is
\* enabled exactly when the task is started and not done (an adapter's request
\* always ends: its http.Client has a Timeout of 30 seconds).
FairTask(t) == []<>(pc[t] \in {"idle", "done"}) \/ []<><<TaskStep(t)>>_vars

\* The goroutines of Run are scheduled fairly.
FairSpec ==
  /\ Spec
  /\ WF_vars(Spawn)
  /\ WF_vars(RunReturn)
  /\ \A t \in Tasks : FairTask(t)

\* ------------------------------------------ the classifier, on its own
\* determineBundleCategory and the category filter applied to one API bundle
\* whose name, type and display_type are drawn from the sets below.

\* Names of API bundles: none, unremarkable ones, and names with the terms the
\* classifier and the filter look for.
ProbeNames ==
  { "", "Mystery Box", "Pro Studio Software Bundle", "RPG and Fantasy Software Bundle",
    "Gaming Certification Bundle", "Python Certification Course", "Excel Training Bundle",
    "Photo App Bundle", "Game Training Bundle" }

\* Values of the type field of an API bundle.
ProbeTypes ==
  { "", "bundle", "game", "pick-and-mix", "book-bundle", "software-bundle", "elearning-bundle" }

\* Values of the display_type field of an API bundle.
ProbeDisplayTypes == { "", "book-bundle", "Book-Bundle", "software-bundle", "elearning-bundle" }

\* An API bundle on sale with the given name, type and display_type.
ProbeBundle(name, type, displayType) ==
  [Deal(name, "probe", type, 5, FarSec) EXCEPT !.DisplayType = displayType]

\* The filter loop of updateCategory, lines 348-354, over bundles of any source.
FilterProbe(bundles, category) ==
  LET Keep(bundle) == shouldIncludeBundle(bundle, category)
  IN  SelectSeq(bundles, Keep)

\* No run: the clock stands at Now0, the sources do not answer, no task starts.
InitNoRun ==
  /\ timeNow = Now0
  /\ upstream = [src \in Range(Sources) |-> Response(FALSE, 0, FALSE, ZeroBody(src))]
  /\ disk = "ok"
  /\ InitTasks

ClassifyInit ==
  /\ InitNoRun
  /\ \E name \in ProbeNames, type \in ProbeTypes, displayType \in ProbeDisplayTypes :
       probe = [kind |-> "classify", bundle |-> ProbeBundle(name, type, displayType)]
  /\ answer = NoProbe

\* Category: determineBundleCategory(apiBundle), feed.go line 706.
Classify ==
  /\ probe.kind = "classify"
  /\ answer.kind = "none"
  /\ answer' = [kind |-> "category", category |-> determineBundleCategory(probe.bundle)]
  /\ UNCHANGED <<probe, timeNow, upstream, disk, spawned, wg, runReturned, pc, allBundles,
                 err, requests, adapterOut, deduped, selected, handed, doneCalls, files>>

\* The bundle is converted as the only bundle of a source, and the filter loop
\* of updateCategory runs over it for each category of Run.
Include ==
  /\ answer.kind = "category"
  /\ LET converted == convertAPIBundlesToInternal(<<probe.bundle>>, timeNow)
     IN  answer' = [kind |-> "outputs", category |-> answer.category,
                    converted |-> converted,
                    outputs |-> {c \in Tasks : Len(FilterProbe(converted, c)) > 0}]
  /\ UNCHANGED <<probe, timeNow, upstream, disk, spawned, wg, runReturned, pc, allBundles,
                 err, requests, adapterOut, deduped, selected, handed, doneCalls, files>>

ClassifyNext == Classify \/ Include

ClassifySpec == ClassifyInit /\ [][ClassifyNext]_vars

\* --------------------------------------------------- prices, one bundle alone

\* A map with two keys.
TwoPrices(cur1, amount1, cur2, amount2) ==
  [c \in {cur1, cur2} |-> IF c = cur1 THEN amount1 ELSE amount2]

\* The sale price tables of the bundle whose prices are resolved, in cents.
ProbePrices ==
  { NoPrices, OnePrice("USD", 100), OnePrice("EUR", 999), OnePrice("JPY", 1200),
    TwoPrices("USD", 0, "EUR", 999), TwoPrices("EUR", 0, "GBP", 500),
    TwoPrices("CAD", 300, "AUD", 100), TwoPrices("USD", 100, "EUR", 999) }

\* Its list price tables. For every sale amount s and list amount l > s that
\* getPrice can return from these tables, Go's float64
\* int(((l - s) / l) * 100) is the integer part of the exact quotient, which
\* is what BundleDiscount computes.
ProbeFullPrices ==
  { NoPrices, OnePrice("USD", 300), OnePrice("USD", 1999), OnePrice("EUR", 200) }

\* Its discount_percent and its pnm_saving.
ProbeDiscounts == { 0, 25, 150 }
ProbeSavings == { 0, 70 }

\* The preferred currencies getPrice is asked for.
ProbeCurrencies == { "USD", "EUR" }

PriceInit ==
  /\ InitNoRun
  /\ \E price \in ProbePrices, fullPrice \in ProbeFullPrices,
        discount \in ProbeDiscounts, saving \in ProbeSavings,
        preferredCurrency \in ProbeCurrencies :
       probe = [kind |-> "price",
                bundle |-> [Deal("Mystery Box", "probe", "bundle", 5, FarSec)
                              EXCEPT !.Price = price, !.FullPrice = fullPrice,
                                     !.DiscountPercent = discount, !.PNMSaving = saving],
                preferredCurrency |-> preferredCurrency]
  /\ answer = NoProbe

\* getPrice is called with the sale price table and the preferred currency.
Resolve ==
  /\ probe.kind = "price"
  /\ answer.kind = "none"
  /\ answer' = [kind |-> "amount",
                amount |-> getPrice(probe.bundle.Price, probe.preferredCurrency)]
  /\ UNCHANGED <<probe, timeNow, upstream, disk, spawned, wg, runReturned, pc, allBundles,
                 err, requests, adapterOut, deduped, selected, handed, doneCalls, files>>

\* The bundle is converted as the only bundle of a source, and the filter loop
\* of updateCategory runs over it for each category of Run.
Convert ==
  /\ answer.kind = "amount"
  /\ LET converted == convertAPIBundlesToInternal(<<probe.bundle>>, timeNow)
     IN  answer' = [kind |-> "bundle", amount |-> answer.amount,
                    converted |-> converted,
                    outputs |-> {c \in Tasks : Len(FilterProbe(converted, c)) > 0}]
  /\ UNCHANGED <<probe, timeNow, upstream, disk, spawned, wg, runReturned, pc, allBundles,
                 err, requests, adapterOut, deduped, selected, handed, doneCalls, files>>

PriceNext == Resolve \/ Convert

PriceSpec == PriceInit /\ [][PriceNext]_vars

\* ------------------------------------------------- createFeed, on its own
\* createFeed applied to a list of bundles of any length. The run above hands
\* createFeed at most MaxInsertion bundles, for which sort.Slice of the Go 1.20
\* of the build workflow is an insertion sort; for a longer slice it is a
\* quicksort, and sort.Slice leaves the order of equal elements open.

\* The longest slice sort.Slice sorts by insertion.
MaxInsertion == 12

\* The sequence with the items at i and i + 1 exchanged.
SwapAt(s, i) == [s EXCEPT ![i] = s[i + 1], ![i + 1] = s[i]]

RECURSIVE TieOrders(_)
\* The sequences that differ from those of a set only in the order of items
\* created at the same instant.
TieOrders(orders) ==
  LET Ties(s) == {i \in 1..(Len(s) - 1) : s[i].Created = s[i + 1].Created}
      more == orders \cup UNION { {SwapAt(s, i) : i \in Ties(s)} : s \in orders }
  IN  IF more = orders THEN orders ELSE TieOrders(more)

\* The orders sort.Slice(feed.Items, ... Created.After ...) may leave the items in.
sortSlice(items) ==
  IF Len(items) <= MaxInsertion THEN { SortItems(<<>>, items) }
  ELSE TieOrders({ SortItems(<<>>, items) })

\* The feeds createFeed may return for a list of bundles of any length.
createFeedOfAny(bundles, category) ==
  { [Title |-> "Fanatical RSS " \o Title(category) \o " Bundles", Items |-> items] :
      items \in sortSlice(MapSeq(FeedItem, bundles)) }

\* The start seconds of up to four bundles, in their order of arrival.
ShortStarts == UNION { [1..n -> 1..3] : n \in 0..4 }

\* Twelve distinct start seconds.
DistinctStarts == <<7, 12, 11, 10, 9, 8, 6, 5, 4, 3, 2, 1>>

\* The start seconds of thirteen bundles: the first bundle starts when one of
\* the twelve others does.
LongStarts == { <<DistinctStarts[k]>> \o DistinctStarts : k \in 1..Len(DistinctStarts) }

\* The bundles convertAPIBundlesToInternal makes of API bundles with these starts.
ProbeFeedBundles(starts) ==
  [i \in 1..Len(starts) |->
     InternalBundle(Deal("Bundle " \o ToString(i), "bundle-" \o ToString(i), "bundle",
                         starts[i], FarSec), Now0)]

FeedInit ==
  /\ InitNoRun
  /\ \E starts \in ShortStarts \cup LongStarts :
       probe = [kind |-> "feed", bundles |-> ProbeFeedBundles(starts)]
  /\ answer = NoProbe

\* createFeed is called with the bundles for the games feed.
CreateFeed ==
  /\ probe.kind = "feed"
  /\ answer.kind = "none"
  /\ \E feed \in createFeedOfAny(probe.bundles, "games") :
       answer' = [kind |-> "feed", feed |-> feed]
  /\ UNCHANGED <<probe, timeNow, upstream, disk, spawned, wg, runReturned, pc, allBundles,
                 err, requests, adapterOut, deduped, selected, handed, doneCalls, files>>

FeedNext == CreateFeed

FeedSpec == FeedInit /\ [][FeedNext]_vars

\* ------------------------------------- convertPromotionsToBundles, on its own
\* One answer of /api/all-promotions/de with one free-products promotion of one
\* product and one voucher, converted for a category and filtered for it.

\* Names, slugs and types of the product of a free-products promotion.
ProbeProductNames == { "", "Mystery Box Free", "Retro Handbook", "Photo Software Suite" }
ProbeProductSlugs == { "", "mystery-box" }
ProbeProductTypes == { "game", "book", "software" }

\* A free-products promotion that has not ended, with one product.
ProbeFreeProduct(name, slug, type, visible, public) ==
  [FreeMystery EXCEPT
     !.Public = public,
     !.Products = << [ID |-> "fp-0", Name |-> name, Slug |-> slug, Type |-> type,
                      Price |-> OnePrice("USD", 499), Mystery |-> FALSE,
                      IsVisible |-> visible] >>]

PromotionsInit ==
  /\ InitNoRun
  /\ \E name \in ProbeProductNames, slug \in ProbeProductSlugs, type \in ProbeProductTypes,
        visible \in BOOLEAN, public \in BOOLEAN, category \in Tasks :
       probe = [kind |-> "promotions",
                promotions |-> [FreeProducts |-> <<ProbeFreeProduct(name, slug, type,
                                                                    visible, public)>>,
                                Vouchers |-> <<VoucherSpring>>],
                category |-> category]
  /\ answer = NoProbe

\* updateCategory, line 337: the promotions are converted for the category.
ConvertPromotions ==
  /\ probe.kind = "promotions"
  /\ answer.kind = "none"
  /\ answer' = [kind |-> "bundles",
                bundles |-> convertPromotionsToBundles(probe.promotions, probe.category,
                                                       timeNow)]
  /\ UNCHANGED <<probe, timeNow, upstream, disk, spawned, wg, runReturned, pc, allBundles,
                 err, requests, adapterOut, deduped, selected, handed, doneCalls, files>>

\* updateCategory, lines 345-354: the bundles are deduplicated and filtered
\* for the category.
FilterPromotions ==
  /\ answer.kind = "bundles"
  /\ answer' = [kind |-> "output", bundles |-> answer.bundles,
                output |-> FilterProbe(removeDuplicateBundles(answer.bundles),
                                       probe.category)]
  /\ UNCHANGED <<probe, timeNow, upstream, disk, spawned, wg, runReturned, pc, allBundles,
                 err, requests, adapterOut, deduped, selected, handed, doneCalls, files>>

PromotionsNext == ConvertPromotions \/ FilterPromotions

PromotionsSpec == PromotionsInit /\ [][PromotionsNext]_vars

\* --------------------------------------------------- giveaways, one bundle alone
\* convertAPIBundlesToInternal applied to one API bundle whose giveaway flag,
\* item count and promotion flags are drawn from the sets below.

\* Values of game_total around the threshold of convertAPIBundlesToInternal.
ProbeGameTotals == { 0, 1, 4, 5, 6, 10 }

GiveawayInit ==
  /\ InitNoRun
  /\ \E giveaway \in BOOLEAN, gameTotal \in ProbeGameTotals,
        starDeal \in BOOLEAN, bestEver \in BOOLEAN, flashSale \in BOOLEAN :
       probe = [kind |-> "giveaway",
                bundle |-> [Deal("Mystery Box", "probe", "bundle", 5, FarSec)
                              EXCEPT !.Giveaway = giveaway, !.GameTotal = gameTotal,
                                     !.StarDeal = starDeal, !.BestEver = bestEver,
                                     !.FlashSale = flashSale]]
  /\ answer = NoProbe

\* The bundle is converted as the only bundle of a source.
ConvertGiveaway ==
  /\ probe.kind = "giveaway"
  /\ answer.kind = "none"
  /\ answer' = [kind |-> "converted",
                converted |-> convertAPIBundlesToInternal(<<probe.bundle>>, timeNow)]
  /\ UNCHANGED <<probe, timeNow, upstream, disk, spawned, wg, runReturned, pc, allBundles,
                 err, requests, adapterOut, deduped, selected, handed, doneCalls, files>>

GiveawayNext == ConvertGiveaway

GiveawaySpec == GiveawayInit /\ [][GiveawayNext]_vars

\* ------------------------------------------ pick-and-mix tiers, one offer alone
\* convertPickAndMixToBundle applied to one pick-and-mix offer whose tiers are
\* drawn from the sets below.

\* The price tables of a tier, in cents.
ProbeTierPrices ==
  { NoPrices, OnePrice("USD", 999), OnePrice("USD", 1499), OnePrice("EUR", 499),
    TwoPrices("USD", 1999, "EUR", 1799) }

\* The tier lists of an offer: up to three tiers.
ProbeTierLists == UNION { [1..n -> ProbeTierPrices] : n \in 0..3 }

TierInit ==
  /\ InitNoRun
  /\ \E prices \in ProbeTierLists :
       probe = [kind |-> "tiers",
                pnm |-> [PnmPlatinum EXCEPT
                           !.Tiers = [i \in 1..Len(prices) |->
                                        [Quantity |-> i + 1, Price |-> prices[i]]]]]
  /\ answer = NoProbe

\* fetchBundlesFromNewAPI, the loop over PickAndMix: the offer is converted.
ConvertPickAndMix ==
  /\ probe.kind = "tiers"
  /\ answer.kind = "none"
  /\ answer' = [kind |-> "candidate", bundle |-> convertPickAndMixToBundle(probe.pnm)]
  /\ UNCHANGED <<probe, timeNow, upstream, disk, spawned, wg, runReturned, pc, allBundles,
                 err, requests, adapterOut, deduped, selected, handed, doneCalls, files>>

TierNext == ConvertPickAndMix

TierSpec == TierInit /\ [][TierNext]_vars

\* ------------------------------------------------------------------- claims

\* Every updateCategory task of the run has returned.
AllDone == \A t \in Tasks : pc[t] = "done"

\* The bundles the adapters that succeeded handed a task, in the order of the
\* appends of updateCategory: the input of removeDuplicateBundles.
Merged(t) ==
  LET Got(src) == IF adapterOut[t][src].failed THEN <<>> ELSE adapterOut[t][src].bundles
  IN  Flatten(MapSeq(Got, Sources))

\* The output of a category: the bundle list its task handed to createFeed.
Output(t) == IF Len(handed[t]) = 0 THEN <<>> ELSE handed[t][Len(handed[t])]

\* Two bundles with the same slug and the same start in unix seconds.
SameInstance(a, b) == a.Slug = b.Slug /\ Unix(a.StartDate) = Unix(b.StartDate)

\* A response that arrived, with a status outside 2xx or a body that does not decode.
NonOK(resp) ==
  resp.transport /\ (resp.status < 200 \/ resp.status > 299 \/ ~resp.decodes)

\* C1: in a run, the games, books and software outputs are pairwise disjoint: no
\* bundle is in the output of two categories.
C1_OutputsDisjoint ==
  \A c1 \in Categories, c2 \in Categories :
    c1 # c2 /\ pc[c1] = "done" /\ pc[c2] = "done"
      => Range(Output(c1)) \cap Range(Output(c2)) = {}

C3_SelectedIffCategory ==
  \A c \in Categories :
    pc[c] = "done" =>
      LET Owned(b) == b.Category = c
      IN  selected[c] = SelectSeq(deduped[c], Owned)

\* C4: when all three adapters returned an error to a category's task, its output
\* is one entry, the test bundle of that category.
C4_AllFailedPlaceholder ==
  \A c \in Categories :
    pc[c] = "done" /\ (\A src \in Range(Sources) : adapterOut[c][src].failed)
      => /\ Len(Output(c)) = 1
         /\ Output(c)[1].ID = c \o "-test"
         /\ Output(c)[1].Category = c
         /\ Output(c)[1].StartDate = timeNow

\* A category task that is done after its three adapters failed.
C4_Witness ==
  \E c \in Categories :
    /\ pc[c] = "done"
    /\ \A src \in Range(Sources) : adapterOut[c][src].failed
    /\ Len(Output(c)) = 1

\* C5: whatever the three sources answer, each of the games, books and software
\* tasks eventually hands one bundle list to createFeed, the list is not empty,
\* and the task never hands a second one.
C5_EachCategoryHandsOneList ==
  /\ [](\A c \in Categories :
          /\ Len(handed[c]) <= 1
          /\ (Len(handed[c]) = 1 => Len(handed[c][1]) > 0))
  /\ \A c \in Categories : <>[](pc[c] = "done" /\ Len(handed[c]) = 1)

\* A run in which the first adapter failed and the second succeeded for the
\* software task, and the three category tasks have handed their one list each.
C5_Witness ==
  /\ \A c \in Categories : pc[c] = "done" /\ Len(handed[c]) = 1
  /\ adapterOut["software"]["new"].failed
  /\ ~adapterOut["software"]["algolia"].failed
  /\ Len(handed["software"][1]) > 0

\* C6: the bundle set a task deduplicates and filters is the concatenation, in
\* adapter order, of what the adapters that succeeded returned: an adapter that
\* failed takes away its own candidates only.
C6_FailureKeepsOtherCandidates ==
  \A t \in Tasks : pc[t] = "process" => allBundles[t] = Merged(t)

\* A task about to deduplicate after exactly one adapter failed, holding the
\* bundles of the other two.
C6_Witness ==
  \E t \in Tasks :
    /\ pc[t] = "process"
    /\ Cardinality({src \in Range(Sources) : adapterOut[t][src].failed}) = 1
    /\ \A src \in Range(Sources) :
         ~adapterOut[t][src].failed => Len(adapterOut[t][src].bundles) > 0
    /\ Len(allBundles[t]) > 0

\* C7: an adapter that received a status outside 2xx, or a body that does not
\* decode, returns an error and no candidates; and the task it ran in still
\* runs all three adapters before it is done.
C7_AdapterFailsCleanly ==
  /\ \A t \in Tasks, src \in Range(Sources) :
       adapterOut[t][src].ran /\ NonOK(upstream[src])
         => adapterOut[t][src].failed /\ adapterOut[t][src].bundles = <<>>
  /\ \A t \in Tasks :
       pc[t] = "done" => \A src \in Range(Sources) : adapterOut[t][src].ran

\* A task that is done after its first adapter got a body that does not decode
\* and its second a 503, with candidates from the third.
C7_Witness ==
  \E t \in Tasks :
    /\ pc[t] = "done"
    /\ upstream["new"].status = 200 /\ ~upstream["new"].decodes
    /\ upstream["algolia"].status = 503
    /\ adapterOut[t]["new"].failed /\ adapterOut[t]["algolia"].failed
    /\ ~adapterOut[t]["promotions"].failed
    /\ Len(deduped[t]) > 0

\* C8: no bundle selected for a category ended strictly before the instant it
\* was converted.
C8_NoExpiredInOutput ==
  \A c \in Categories : \A i \in 1..Len(selected[c]) : ~(selected[c][i].EndDate < timeNow)

\* C9: of the merged bundles with one slug and one start second, the
\* deduplicated list holds exactly one, the first of them in the merged order.
C9_FirstSeenOnly ==
  \A t \in Tasks :
    pc[t] = "done" =>
      \A i \in 1..Len(Merged(t)) :
        LET b == Merged(t)[i]
            first == \A j \in 1..(i - 1) : ~SameInstance(Merged(t)[j], b)
            kept == {k \in 1..Len(deduped[t]) : SameInstance(deduped[t][k], b)}
        IN  first => Cardinality(kept) = 1 /\ \A k \in kept : deduped[t][k] = b

\* C10: merged bundles with one slug and different start seconds are distinct
\* to the deduplicator: the deduplicated list holds a bundle of each of the two
\* start seconds.
C10_OtherSecondKept ==
  \A t \in Tasks :
    pc[t] = "done" =>
      \A i \in 1..Len(Merged(t)), j \in 1..Len(Merged(t)) :
        LET a == Merged(t)[i]
            b == Merged(t)[j]
        IN  a.Slug = b.Slug /\ Unix(a.StartDate) # Unix(b.StartDate)
              => \E k \in 1..Len(deduped[t]) : SameInstance(deduped[t][k], a)

\* The API bundle has been classified.
Classified == probe.kind = "classify" /\ answer.kind \in {"category", "outputs"}

\* The API bundle has been classified, converted and filtered.
Filtered == probe.kind = "classify" /\ answer.kind = "outputs"

\* A display_type or type that names a category.
NamesCategory(hint) ==
  ToLower(hint) \in {"book-bundle", "software-bundle", "elearning-bundle"}

\* The title has a books-indicating term of the classification rules.
BooksTerm(title) ==
  \E term \in {"certification", "learning", "training", "course", "tabletop", "comic",
               "programming", "coding", "security", "cloud", "network", "robotics"} :
    Contains(ToLower(title), term)

\* The title has a games-indicating term of the classification rules.
GamesTerm(title) ==
  \E term \in {"game", "gaming", "rpg and fantasy"} : Contains(ToLower(title), term)

\* The title has a software-indicating term of the classification rules.
SoftwareTerm(title) ==
  \E term \in {"software", "app", "excel"} : Contains(ToLower(title), term)

\* The name has one of the terms determineBundleCategory looks for.
ClassifierTerm(name) ==
  \E term \in {"book", "certification", "learning", "training", "course",
               "software", "excel", "programming", "development"} :
    Contains(ToLower(name), term)

\* C11: a display_type of book-bundle makes the category books and one of
\* software-bundle makes it software, whatever the type and the name are.
C11_HintDecides ==
  Classified =>
    /\ ToLower(probe.bundle.DisplayType) = "book-bundle" => answer.category = "books"
    /\ ToLower(probe.bundle.DisplayType) = "software-bundle" => answer.category = "software"

\* A bundle with display_type Book-Bundle, type software-bundle and a name with
\* "software", classified as books.
C11_Witness ==
  /\ Classified
  /\ probe.bundle.DisplayType = "Book-Bundle"
  /\ probe.bundle.Type = "software-bundle"
  /\ Contains(ToLower(probe.bundle.Name), "software")
  /\ answer.category = "books"

\* C12: a bundle without a category-naming display_type whose title has a books
\* term and a games term is not classified as books and is not in the books
\* output.
C12_GamesTermOverridesBooks ==
  Filtered /\ ~NamesCategory(probe.bundle.DisplayType)
           /\ BooksTerm(probe.bundle.Name) /\ GamesTerm(probe.bundle.Name)
    => answer.category # "books" /\ "books" \notin answer.outputs

\* C13: "RPG and Fantasy Software Bundle" with an empty display_type is
\* classified as games and is in the games output, not in the software output.
C13_RpgSoftwareIsGames ==
  Filtered /\ probe.bundle.Name = "RPG and Fantasy Software Bundle"
           /\ probe.bundle.DisplayType = ""
    => /\ answer.category = "games"
       /\ "games" \in answer.outputs
       /\ "software" \notin answer.outputs

\* C14: a bundle with an empty display_type whose title has a software term
\* and neither a books nor a games term is classified as software, whatever
\* its type is.
C14_SoftwareTermIsSoftware ==
  Classified /\ probe.bundle.DisplayType = ""
             /\ SoftwareTerm(probe.bundle.Name)
             /\ ~BooksTerm(probe.bundle.Name) /\ ~GamesTerm(probe.bundle.Name)
    => answer.category = "software"

Resolved == probe.kind = "price" /\ answer.kind \in {"amount", "bundle"}

\* The probed bundle has been converted and is in an output.
Converted ==
  probe.kind = "price" /\ answer.kind = "bundle" /\ Len(answer.converted) = 1
                       /\ answer.outputs # {}

\* 100 * (list - sale) / list, rounded to the nearest integer.
RoundedDiscount(sale, list) == (200 * (list - sale) + list) \div (2 * list)

\* C16: a converted bundle with list > 0 and list > sale, no discount_percent
\* and no pnm_saving above the rounded value has the discount
\* round(100 * (list - sale) / list).
C16_DiscountIsRounded ==
  Converted =>
    LET price == answer.converted[1].Price
    IN  /\ price.Original > 0 /\ price.Original > price.Amount
        /\ probe.bundle.DiscountPercent = 0
        /\ probe.bundle.PNMSaving <= RoundedDiscount(price.Amount, price.Original)
        => price.Discount = RoundedDiscount(price.Amount, price.Original)

\* C17: every bundle in a category output has a discount between 0 and 100.
C17_DiscountInRange ==
  Converted => answer.converted[1].Price.Discount \in 0..100

\* The first of the fallback currencies that satisfies Has, or 0 for none.
FirstFallback(Has(_)) ==
  LET having == {i \in 1..Len(FallbackCurrencies) : Has(FallbackCurrencies[i])}
  IN  IF having = {} THEN 0
      ELSE CHOOSE i \in having : \A j \in having : i <= j

\* C18, as amended: the amount is that of the preferred currency when the table
\* has it with an amount above 0; otherwise that of the first fallback currency
\* (EUR, GBP, CAD, AUD) the table has with an amount above 0; otherwise 0.
C18_PositiveAmountResolution ==
  Resolved =>
    LET table == probe.bundle.Price
        Has(cur) == cur \in DOMAIN table /\ table[cur] > 0
        first == FirstFallback(Has)
    IN  answer.amount = IF Has(probe.preferredCurrency) THEN table[probe.preferredCurrency]
                        ELSE IF first = 0 THEN 0
                        ELSE table[FallbackCurrencies[first]]

\* The table has USD with amount 0 and EUR with 9.99; USD is preferred and the
\* amount returned is 9.99.
C18_Witness ==
  /\ Resolved
  /\ probe.preferredCurrency = "USD"
  /\ probe.bundle.Price = TwoPrices("USD", 0, "EUR", 999)
  /\ answer.amount = 999

\* C18, as stated: the amount is that of the preferred currency when the table
\* has it; otherwise that of the first fallback currency the table has;
\* otherwise 0.
C18_PresentAmountResolution ==
  Resolved =>
    LET table == probe.bundle.Price
        Has(cur) == cur \in DOMAIN table
        first == FirstFallback(Has)
    IN  answer.amount = IF Has(probe.preferredCurrency) THEN table[probe.preferredCurrency]
                        ELSE IF first = 0 THEN 0
                        ELSE table[FallbackCurrencies[first]]

\* C19: a bundle with the price table {"EUR": 9.99} is converted to a bundle
\* with the sale amount 9.99 and the currency code EUR.
C19_FallbackCurrencyRecorded ==
  Converted /\ probe.bundle.Price = OnePrice("EUR", 999)
    => /\ answer.converted[1].Price.Amount = 999
       /\ answer.converted[1].Price.Currency = "EUR"

\* C20: for the same answer of a source, the bundles an adapter produces are
\* the same in the games, the books and the software task.
C20_AdapterOutputSameForAllCategories ==
  \A c1 \in Categories, c2 \in Categories, src \in Range(Sources) :
    adapterOut[c1][src].ran /\ adapterOut[c2][src].ran
      => adapterOut[c1][src].bundles = adapterOut[c2][src].bundles

\* C21: in a run each source receives one request, whatever the number of
\* category tasks is, and the tasks filter the same deduplicated bundles.
C21_EachSourceFetchedOnce ==
  /\ \A src \in Range(Sources) : requests[src] <= 1
  /\ \A c1 \in Categories, c2 \in Categories :
       pc[c1] = "done" /\ pc[c2] = "done" => deduped[c1] = deduped[c2]

\* Where the bundle of a feed item is in the list createFeed was given.
Arrival(item) ==
  CHOOSE k \in 1..Len(probe.bundles) : FeedItem(probe.bundles[k]).Id = item.Id

\* C22: the items of a feed are ordered by their start, the latest first, and
\* items with the same start are in their order of arrival.
C22_NewestFirstStable ==
  probe.kind = "feed" /\ answer.kind = "feed" =>
    \A i \in 1..Len(answer.feed.Items), j \in 1..Len(answer.feed.Items) :
      i < j =>
        /\ answer.feed.Items[i].Created >= answer.feed.Items[j].Created
        /\ answer.feed.Items[i].Created = answer.feed.Items[j].Created
             => Arrival(answer.feed.Items[i]) < Arrival(answer.feed.Items[j])

\* C23: no bundle with an empty title or an empty url is in a category output.
C23_NoEmptyTitleOrURL ==
  probe.kind = "promotions" /\ answer.kind = "output" =>
    \A i \in 1..Len(answer.output) :
      answer.output[i].Title # "" /\ answer.output[i].URL # ""

\* C24: a giveaway with fewer than 5 items is dropped when the source sets
\* none of its promotion flags and kept when it sets them all (star deal, best
\* ever, flash sale); a bundle with 5 items or more is kept.
C24_GiveawayRule ==
  probe.kind = "giveaway" /\ answer.kind = "converted" =>
    LET bundle == probe.bundle
        kept == Len(answer.converted) = 1
        small == bundle.Giveaway /\ bundle.GameTotal < 5
    IN  /\ small /\ ~bundle.StarDeal /\ ~bundle.BestEver /\ ~bundle.FlashSale => ~kept
        /\ small /\ bundle.StarDeal /\ bundle.BestEver /\ bundle.FlashSale => kept
        /\ bundle.GameTotal >= 5 => kept

\* C25: the candidate of a pick-and-mix offer has a list price of twice its
\* sale price, and its sale price is a price of one of the tiers: the lowest
\* USD price when a tier has one.
C25_CheapestTierDoubled ==
  probe.kind = "tiers" /\ answer.kind = "candidate" =>
    LET tiers == probe.pnm.Tiers
        amounts == UNION { {tiers[i].Price[cur] : cur \in DOMAIN tiers[i].Price} :
                             i \in 1..Len(tiers) }
        dollars == {tiers[i].Price["USD"] :
                      i \in {k \in 1..Len(tiers) : "USD" \in DOMAIN tiers[k].Price}}
        sale == answer.bundle.Price["USD"]
    IN  /\ answer.bundle.FullPrice["USD"] = 2 * sale
        /\ amounts # {} => sale \in amounts
        /\ dollars # {} => \A amount \in dollars : sale <= amount

RECURSIVE IsSubsequence(_, _)
\* The first sequence is the second one with some of its elements left out.
IsSubsequence(sub, s) ==
  IF Len(sub) = 0 THEN TRUE
  ELSE IF Len(s) = 0 THEN FALSE
  ELSE IF Head(sub) = Head(s) THEN IsSubsequence(Tail(sub), Tail(s))
  ELSE IsSubsequence(sub, Tail(s))

\* C26: the deduplicated list of a task is a subsequence of the merged list
\* removeDuplicateBundles was given: the survivors keep their relative order.
C26_DedupKeepsOrder ==
  \A t \in Tasks : pc[t] = "done" => IsSubsequence(deduped[t], Merged(t))

\* A task whose deduplication discarded a bundle and kept three or more.
C26_Witness ==
  \E t \in Tasks :
    /\ pc[t] = "done"
    /\ Len(deduped[t]) >= 3
    /\ Len(deduped[t]) < Len(Merged(t))

\* C27: two merged bundles have the same key only if they have the same slug
\* and the same start second, and the first merged bundle of a slug and start
\* second survives the deduplication.
C27_KeyIdentifiesSlugAndSecond ==
  \A t \in Tasks :
    pc[t] = "done" =>
      \A i \in 1..Len(Merged(t)) :
        /\ \A j \in 1..Len(Merged(t)) :
             DedupKey(Merged(t)[i]) = DedupKey(Merged(t)[j])
               => SameInstance(Merged(t)[i], Merged(t)[j])
        /\ (\A j \in 1..(i - 1) : ~SameInstance(Merged(t)[j], Merged(t)[i]))
             => \E k \in 1..Len(deduped[t]) : deduped[t][k] = Merged(t)[i]

\* C28: a bundle that the filter takes for the fallback output is taken for
\* none of the books, games and software outputs.
C28_FallbackExclusive ==
  Filtered /\ "fallback" \in answer.outputs => answer.outputs \cap Categories = {}

\* C29: Run returns only when every task it started is done, a task has called
\* wg.Done once when it is done and not before, and Run does return.
C29_RunWaitsForEveryTask ==
  /\ [](runReturned => AllDone)
  /\ [](\A t \in Tasks : doneCalls[t] = IF pc[t] = "done" THEN 1 ELSE 0)
  /\ <>runReturned

\* Run has returned from a run in which an adapter failed, the fallback task
\* took the early return for an empty list and the files could not be written.
C29_Witness ==
  /\ runReturned
  /\ disk = "failing"
  /\ \E t \in Tasks : adapterOut[t]["new"].failed
  /\ Len(handed["fallback"]) = 0
  /\ \A t \in Tasks : doneCalls[t] = 1

\* C30: the tasks write to files of different names, a file is written at most
\* once, only by the task of its category once that task is done, and it holds
\* the feed of that category.
C30_OneFilePerTask ==
  /\ \A t1 \in Tasks, t2 \in Tasks : t1 # t2 => FileName(t1) # FileName(t2)
  /\ \A t \in Tasks :
       /\ files[FileName(t)].writes <= 1
       /\ files[FileName(t)].writes = 1 =>
            /\ pc[t] = "done"
            /\ files[FileName(t)].feed.Title = "Fanatical RSS " \o Title(t) \o " Bundles"
            /\ Len(files[FileName(t)].feed.Items) = Len(Output(t))

\* Every task of a run is done and each of the four files was written once.
C30_Witness ==
  /\ AllDone
  /\ disk = "ok"
  /\ \A t \in Tasks : files[FileName(t)].writes = 1
  /\ \E t \in Tasks : Len(Output(t)) >= 2

====
